---------------------------- MODULE Spec2Model ----------------------------
(***************************************************************************)
(* A model of the multi-tenant legal-practice backend.                     *)
(*                                                                         *)
(* The repository holds three variants of the backend, each a deployment   *)
(* of its own:                                                             *)
(*   "server"   src/server/** with BaseService (Supabase, admin schema)    *)
(*   "prisma"   the Prisma services of src/unnamed/part_014 / part_016     *)
(*              behind the controllers of src/src/controllers              *)
(*   "supabase" src/src/services/authService.ts and part_015               *)
(* The variable `variant` says which one runs; it never changes.           *)
(*                                                                         *)
(* A handler is cut into steps at its awaits on the database: everything   *)
(* Node runs between two awaits is one atomic step.                        *)
(***************************************************************************)
EXTENDS Integers, Sequences, FiniteSets, TLC

VARIABLES
    variant,     \* which backend variant is deployed
    tenants,     \* the tenants table: set of [id, schema_name, is_active]
    schemas,     \* the PostgreSQL schemas that exist (set of schema names)
    created,     \* schema names ever created by a CREATE SCHEMA
    users,       \* the users table: set of [id, tenant_id, email, account_type, is_active]
    tokens,      \* the refresh_tokens table: set of [id, user_id, token, is_active]
    keys,        \* the registration_keys table
    pubs,        \* the publications table of one tenant schema
    pubIds,      \* the publication ids handed out so far
    req,         \* the handlers in flight: process id -> its locals
    returned     \* tenant ids returned so far by createTenant

vars == <<variant, tenants, schemas, created, users, tokens, keys, pubs, pubIds, req, returned>>

dbVars == <<tenants, schemas, created, users, tokens, keys, pubs, pubIds, returned>>

----------------------------------------------------------------------------
(* Bounds of the model *)

\* the number of handlers in flight at once
NumProcs == 2

Procs == 1..NumProcs

\* the refresh tokens jwt.sign hands out
TokenIdSet == {"r1", "r2", "r3"}

NoToken == "none"

\* the ids gen_random_uuid() hands to publications
PubIdSet == {"p1", "p2"}

NoPub == "none"

----------------------------------------------------------------------------
(* Identifiers *)

Hex == {"a", "b"}

\* A tenant id is a UUID: groups of hex digits separated by hyphens at fixed
\* places (8-4-4-4-12, here 1-1).
TenantIds == {<<x, "-", y>> : x \in Hex, y \in Hex}

T1 == <<"a", "-", "b">>

T2 == <<"b", "-", "a">>

\* the id of the demonstration tenant, whose schema is named 'tenant_demo'
DemoTenant == <<"a", "-", "a">>

NoTenant == <<>>

NoSchema == <<>>

DemoSchema == <<"tenant_demo">>

NoUser == [id |-> "none", tenantId |-> NoTenant, accountType |-> "none"]

\* `tenant_${tenantId.replace(/-/g, '')}`
TenantSchemaName(tenantId) ==
    <<"tenant_">> \o SelectSeq(tenantId, LAMBDA c : c # "-")

TenantRow(id) == CHOOSE t \in tenants : t.id = id

TenantExists(id) == \E t \in tenants : t.id = id

UserRow(id) == CHOOSE u \in users : u.id = id

UserExists(id) == \E u \in users : u.id = id

IsSimples(accountType) == accountType \in {"simples", "SIMPLES"}

----------------------------------------------------------------------------
(* Protected routes: authenticateToken, the account-type guards, the       *)
(* services' permission checks and the tenant query                        *)

Route(module, op, guarded, permModule, kind, errStatus) ==
    [module |-> module, op |-> op, guarded |-> guarded,
     permModule |-> permModule, kind |-> kind, errStatus |-> errStatus]

\* routes/cashflow.ts: every route but /stats sits behind
\* requireAccountType(['composta', 'gerencial'])
CashflowRoutes ==
    { Route("cash_flow", "list",   TRUE,  "cash_flow", "read",  500),
      Route("cash_flow", "stats",  FALSE, "cash_flow", "stats", 500),
      Route("cash_flow", "export", TRUE,  "cash_flow", "read",  500),
      Route("cash_flow", "get",    TRUE,  "cash_flow", "read",  404),
      Route("cash_flow", "create", TRUE,  "cash_flow", "write", 400),
      Route("cash_flow", "update", TRUE,  "cash_flow", "write", 400),
      Route("cash_flow", "delete", TRUE,  "cash_flow", "write", 400) }

\* routes/billing.ts: authenticateToken only; BillingService asks for 'billing'
BillingRoutes ==
    { Route("billing", "list",   FALSE, "billing", "read",  500),
      Route("billing", "stats",  FALSE, "billing", "read",  500),
      Route("billing", "get",    FALSE, "billing", "read",  404),
      Route("billing", "create", FALSE, "billing", "write", 400),
      Route("billing", "update", FALSE, "billing", "write", 400),
      Route("billing", "delete", FALSE, "billing", "write", 400) }

\* routes/invoices.ts: authenticateToken only; InvoiceService asks for 'receivables'
InvoiceRoutes ==
    { Route("invoices", "list",      FALSE, "receivables", "read",  500),
      Route("invoices", "dashboard", FALSE, "receivables", "read",  500),
      Route("invoices", "clients",   FALSE, "receivables", "read",  500),
      Route("invoices", "get",       FALSE, "receivables", "read",  404),
      Route("invoices", "create",    FALSE, "receivables", "write", 400),
      Route("invoices", "update",    FALSE, "receivables", "write", 400),
      Route("invoices", "delete",    FALSE, "receivables", "write", 400) }

\* routes/dashboard.ts: DashboardService.getDashboardData calls
\* CashFlowService.getFinancialStats, which asks for 'cash_flow'
DashboardRoutes ==
    { Route("cash_flow", "dashboard", FALSE, "cash_flow", "stats", 500) }

ServerRoutes ==
    CashflowRoutes \cup BillingRoutes \cup InvoiceRoutes \cup DashboardRoutes

\* TransactionsController and InvoicesController: every method tests
\* req.user.accountType === 'SIMPLES' itself
TransactionsRoutes ==
    { Route("cash_flow", "list",   TRUE, "none", "read",  500),
      Route("cash_flow", "get",    TRUE, "none", "read",  500),
      Route("cash_flow", "create", TRUE, "none", "write", 400),
      Route("cash_flow", "update", TRUE, "none", "write", 400),
      Route("cash_flow", "delete", TRUE, "none", "write", 500) }

InvoicesControllerRoutes ==
    { Route("invoices", "list",   TRUE, "none", "read",  500),
      Route("invoices", "get",    TRUE, "none", "read",  500),
      Route("invoices", "create", TRUE, "none", "write", 400),
      Route("invoices", "update", TRUE, "none", "write", 400),
      Route("invoices", "delete", TRUE, "none", "write", 500),
      Route("invoices", "stats",  TRUE, "none", "read",  500) }

\* DashboardController.getFinancialData answers a SIMPLES account with zeros
DashboardControllerRoutes ==
    { Route("cash_flow", "financial", TRUE, "none", "zeros", 500) }

ControllerRoutes ==
    TransactionsRoutes \cup InvoicesControllerRoutes \cup DashboardControllerRoutes

RoutesOf(v) == IF v = "server" THEN ServerRoutes ELSE ControllerRoutes

NoRoute == Route("none", "none", FALSE, "none", "none", 0)

\* A handler's locals.  tokenUser: the userId of the verified access token;
\* paramTenant: a tenant id the client put in the request (query, body);
\* user: req.user; schema: the schema its tenant query names; status: the
\* HTTP status answered (0: none yet); data: the answer carries rows of the
\* route's table; wrote: the route's table was modified.
IdleReq ==
    [pc |-> "idle", tokenUser |-> "none", paramTenant |-> NoTenant,
     route |-> NoRoute, user |-> NoUser, schema |-> NoSchema,
     status |-> 0, data |-> FALSE, wrote |-> FALSE]

\* res.status(status).json(...): the handler's locals are gone, the answer
\* stays (with the module it came from and the user it went to)
Answer(rq, status) ==
    [rq EXCEPT !.pc = "done", !.status = status, !.paramTenant = NoTenant,
               !.route = [NoRoute EXCEPT !.module = rq.route.module]]

\* requireAccountType(allowedTypes)
RequireAccountType(allowedTypes, accountType) == accountType \in allowedTypes

\* BaseService.requirePermission: TRUE when it returns, FALSE when it throws
RequirePermission(accountType, module) ==
    /\ ~(accountType = "simples" /\ module \in {"cash_flow", "financial_dashboard"})
    /\ ~(module = "settings" /\ accountType # "gerencial")

\* a controller without the account-type test: it refuses no one
ControllerAllowsAll(accountType) == FALSE

\* the controllers' own test: if (req.user.accountType === 'SIMPLES') return 403
ControllerDenies(accountType) == accountType = "SIMPLES"

\* a service that took the tenant from the request's parameters instead
SchemaFromRequestParam(rq) == TenantSchemaName(rq.paramTenant)

\* BaseService's constructor: the schema every query of the service names
BaseServiceSchema(rq) == TenantSchemaName(rq.user.tenantId)

\* TenantDatabase's constructor, given req.tenantId
TenantDatabaseSchema(tenantId) == TenantSchemaName(tenantId)

\* a handler that did not test is_active
UserAlwaysActive(u) == TRUE

\* the users row's is_active, as the handlers test it
UserIsActive(u) == u.is_active

\* the tenants row's is_active, as the handlers test it
TenantIsActive(t) == t.is_active

\* server authenticateToken: error || !user || !user.is_active answers 401
ServerAuthPasses(userId) ==
    UserExists(userId) /\ UserIsActive(UserRow(userId))

\* part_014 authenticateToken:
\* !user || !user.isActive || !user.tenant.isActive answers 401
ControllerAuthPasses(userId) ==
    /\ UserExists(userId)
    /\ UserIsActive(UserRow(userId))
    /\ TenantIsActive(TenantRow(UserRow(userId).tenant_id))

\* getTenantDatabase: the tenant is there and active, or it throws
TenantDbAvailable(tenantId) ==
    \E t \in tenants : t.id = tenantId /\ TenantIsActive(t)

\* A request: the access token of user u on route rt; the client names the
\* tenant pt in it (query string, body), a tenant that is not the user's.
Request(u, rt, pt) ==
    [IdleReq EXCEPT !.pc = "auth", !.tokenUser = u.id,
                    !.paramTenant = pt, !.route = rt]

OtherTenant(u) == IF u.tenant_id = T1 THEN T2 ELSE T1

\* CashFlowService / BillingService / InvoiceService method up to its first
\* query, after `new Service(req.user)`
ServerHandler(rq) ==
    IF ~RequirePermission(rq.user.accountType, rq.route.permModule)
    THEN Answer(rq, rq.route.errStatus)
    ELSE IF rq.route.kind = "stats" /\ rq.user.accountType = "simples"
    THEN Answer(rq, 200)
    ELSE [rq EXCEPT !.pc = "query", !.schema = BaseServiceSchema(rq)]

\* server/middleware/auth.ts authenticateToken, then the route's chain
ServerAuthenticateToken(r) ==
    /\ variant = "server"
    /\ req[r].pc = "idle"
    /\ \E tu \in users, rt \in RoutesOf(variant) :
       LET rq == Request(tu, rt, OtherTenant(tu)) IN
       IF ~ServerAuthPasses(rq.tokenUser)
       THEN req' = [req EXCEPT ![r] = Answer(rq, 401)]
       ELSE LET u == UserRow(rq.tokenUser)
                authed == [rq EXCEPT !.user = [id |-> u.id, tenantId |-> u.tenant_id,
                                               accountType |-> u.account_type]]
            IN IF authed.route.guarded
                  /\ ~RequireAccountType({"composta", "gerencial"}, authed.user.accountType)
               THEN req' = [req EXCEPT ![r] = Answer(authed, 403)]
               ELSE req' = [req EXCEPT ![r] = ServerHandler(authed)]
    /\ UNCHANGED <<variant, dbVars>>

\* part_014 authenticateToken, then the controller up to getTenantDatabase
ControllerAuthenticateToken(r) ==
    /\ variant # "server"
    /\ req[r].pc = "idle"
    /\ \E tu \in users, rt \in RoutesOf(variant) :
       LET rq == Request(tu, rt, OtherTenant(tu)) IN
       IF ~ControllerAuthPasses(rq.tokenUser)
       THEN req' = [req EXCEPT ![r] = Answer(rq, 401)]
       ELSE LET u == UserRow(rq.tokenUser)
                authed == [rq EXCEPT !.user = [id |-> u.id, tenantId |-> u.tenant_id,
                                               accountType |-> u.account_type]]
            IN IF authed.route.guarded /\ ControllerDenies(authed.user.accountType)
               THEN req' = [req EXCEPT ![r] =
                              Answer(authed, IF authed.route.kind = "zeros"
                                             THEN 200 ELSE 403)]
               ELSE req' = [req EXCEPT ![r] = [authed EXCEPT !.pc = "tenantdb"]]
    /\ UNCHANGED <<variant, dbVars>>

\* TenantService.getTenantDatabase(req.tenantId)
GetTenantDatabase(r) ==
    /\ req[r].pc = "tenantdb"
    /\ LET rq == req[r] IN
       IF TenantDbAvailable(rq.user.tenantId)
       THEN req' = [req EXCEPT ![r] =
                      [rq EXCEPT !.pc = "query",
                                 !.schema = TenantDatabaseSchema(rq.user.tenantId)]]
       ELSE req' = [req EXCEPT ![r] = Answer(rq, rq.route.errStatus)]
    /\ UNCHANGED <<variant, dbVars>>

\* The database runs the handler's statements against rq.schema and the
\* handler answers.  A statement naming a schema that does not exist fails.
TenantQuery(r) ==
    /\ req[r].pc = "query"
    /\ LET rq == req[r] IN
       IF rq.schema \notin schemas
       THEN req' = [req EXCEPT ![r] = Answer(rq, rq.route.errStatus)]
       ELSE \E found \in BOOLEAN :
              req' = [req EXCEPT ![r] =
                        IF ~found /\ rq.route.op \in {"get", "update", "delete"}
                        THEN Answer(rq, IF variant = "server" THEN rq.route.errStatus ELSE 404)
                        ELSE [Answer(rq, IF rq.route.op = "create" THEN 201 ELSE 200)
                                EXCEPT !.data = rq.route.op # "delete",
                                       !.wrote = rq.route.kind = "write"]]
    /\ UNCHANGED <<variant, dbVars>>

\* The answer is sent; the process is free for the next request.
FinishRequest(r) ==
    /\ req[r].pc = "done"
    /\ req' = [req EXCEPT ![r] = IdleReq]
    /\ UNCHANGED <<variant, dbVars>>

----------------------------------------------------------------------------
(* The routes specification: two tenants whose schemas carry the derived   *)
(* name, the demonstration tenant with its schema 'tenant_demo', and a     *)
(* user of each account type.                                              *)

AccountTypeName(v, t) == IF v = "server" THEN t
                         ELSE IF t = "simples" THEN "SIMPLES"
                         ELSE IF t = "composta" THEN "COMPOSTA" ELSE "GERENCIAL"

UserRec(id, tenantId, accountType) ==
    [id |-> id, tenant_id |-> tenantId, email |-> id,
     account_type |-> accountType, is_active |-> TRUE]

TenantRec(id, schemaName) ==
    [id |-> id, schema_name |-> schemaName, is_active |-> TRUE]

InitRoutes ==
    /\ variant \in {"server", "prisma"}
    /\ tenants = {TenantRec(T1, TenantSchemaName(T1)),
                  TenantRec(T2, TenantSchemaName(T2)),
                  TenantRec(DemoTenant, DemoSchema)}
    /\ schemas = {TenantSchemaName(T1), TenantSchemaName(T2), DemoSchema}
    /\ users = {UserRec("u1", T1, AccountTypeName(variant, "simples")),
                UserRec("u2", T2, AccountTypeName(variant, "composta")),
                UserRec("u3", DemoTenant, AccountTypeName(variant, "gerencial"))}
    /\ created = schemas
    /\ tokens = {}
    /\ keys = {}
    /\ pubs = {}
    /\ pubIds = {}
    /\ returned = {}
    /\ req = [r \in Procs |-> IdleReq]

NextRoutes ==
    \E r \in Procs :
        \/ ServerAuthenticateToken(r)
        \/ ControllerAuthenticateToken(r)
        \/ GetTenantDatabase(r)
        \/ TenantQuery(r)
        \/ FinishRequest(r)

SpecRoutes == InitRoutes /\ [][NextRoutes]_vars

\* C1: every tenant query a request runs names the schema derived from the
\* tenant_id stored for its user, and that schema is the schema of no other
\* tenant: neither the one another tenant's row records nor the one another
\* tenant's requests derive.
C1_TenantIsolation ==
    \A r \in Procs :
        req[r].schema # NoSchema =>
            /\ UserExists(req[r].tokenUser)
            /\ req[r].schema = TenantSchemaName(UserRow(req[r].tokenUser).tenant_id)
            /\ \A t \in tenants :
                 t.id # UserRow(req[r].tokenUser).tenant_id =>
                     /\ t.schema_name # req[r].schema
                     /\ TenantSchemaName(t.id) # req[r].schema

\* a request that names another tenant is at its query while a request of a
\* user of that other tenant has been answered with rows
C1_Witness ==
    \E r1, r2 \in Procs :
        /\ req[r1].pc = "query"
        /\ req[r1].paramTenant = req[r2].user.tenantId
        /\ req[r1].user.tenantId # req[r2].user.tenantId
        /\ req[r2].pc = "done" /\ req[r2].data

CashFlowModule(rq) == rq.route.module = "cash_flow"

\* C4: no request of a simples-account user to a cash-flow route is answered
\* with cash-flow rows or modifies the cash-flow table.
C4_SimplesNoCashFlow ==
    \A r \in Procs :
        (CashFlowModule(req[r]) /\ UserExists(req[r].tokenUser)
           /\ IsSimples(UserRow(req[r].tokenUser).account_type))
        => (~req[r].data /\ ~req[r].wrote /\ req[r].schema = NoSchema)

\* a simples user's cash-flow request was answered (refused, or zeros for
\* /stats) while another account's cash-flow request got its rows
C4_Witness ==
    \E r1, r2 \in Procs :
        /\ req[r1].pc = "done" /\ CashFlowModule(req[r1])
        /\ IsSimples(req[r1].user.accountType)
        /\ req[r2].pc = "done" /\ CashFlowModule(req[r2]) /\ req[r2].data

\* C5: no route answers a simples-account user with cash-flow transactions,
\* billing documents or receivable invoices.
C5_SimplesNoFinancialData ==
    \A r \in Procs :
        (req[r].route.module \in {"cash_flow", "billing", "invoices"}
           /\ UserExists(req[r].tokenUser)
           /\ IsSimples(UserRow(req[r].tokenUser).account_type))
        => ~req[r].data

\* C14: every tenants row stores as schema_name 'tenant_' followed by its id
\* without the hyphens: the name the handlers derive for the tenant's users
\* is the name of the schema the row records.
C14_StoredSchemaNameIsDerived ==
    \A t \in tenants : t.schema_name = TenantSchemaName(t.id)

----------------------------------------------------------------------------
(* PublicationService: the publications of one tenant schema, operated on  *)
(* by two users of that tenant                                             *)

\* A PublicationService call in flight.  user: this.user.id; id: the id the
\* client asks for; result: the user_id of the rows the call returns (for
\* getStats: of the rows it counts); affected: the user_id of the rows of
\* the table the call inserted, changed or removed.
PubIdle ==
    [pc |-> "idle", op |-> "none", user |-> "none", id |-> NoPub,
     result |-> {}, affected |-> {}, status |-> 0]

PubRow(id, userId, status) == [id |-> id, user_id |-> userId, status |-> status]

Owners(rows) == {p.user_id : p \in rows}

\* a statement without the user_id filter
AnyOwner(p, userId) == TRUE

\* ... AND user_id = $n, with this.user.id for $n
OwnedBy(p, userId) == p.user_id = userId

\* SELECT * FROM publications WHERE user_id = $1
SelectAll(userId) == {p \in pubs : OwnedBy(p, userId)}

\* SELECT * FROM publications WHERE id = $1 AND user_id = $2
SelectById(id, userId) == {p \in pubs : p.id = id /\ OwnedBy(p, userId)}

PubAnswer(rq, status, result, affected) ==
    [rq EXCEPT !.pc = "done", !.status = status, !.result = Owners(result),
               !.affected = Owners(affected)]

PubCall(op, userId, id) ==
    [PubIdle EXCEPT !.op = op, !.user = userId, !.id = id]

\* the rows in which two contents of the table differ
Delta(before, after) == (before \ after) \cup (after \ before)

\* getAll
PubGetAll(r) ==
    /\ req[r].pc = "idle"
    /\ \E u \in users :
         req' = [req EXCEPT ![r] =
                   PubAnswer(PubCall("getAll", u.id, NoPub), 200, SelectAll(u.id), {})]
    /\ UNCHANGED <<variant, dbVars>>

\* getStats: six counts, each over WHERE user_id = $1
PubGetStats(r) ==
    /\ req[r].pc = "idle"
    /\ \E u \in users :
         req' = [req EXCEPT ![r] =
                   PubAnswer(PubCall("getStats", u.id, NoPub), 200, SelectAll(u.id), {})]
    /\ UNCHANGED <<variant, dbVars>>

\* getById, called by GET /:id
PubGetById(r) ==
    /\ req[r].pc = "idle"
    /\ \E u \in users, id \in PubIdSet :
         LET rows == SelectById(id, u.id) IN
         req' = [req EXCEPT ![r] =
                   PubAnswer(PubCall("getById", u.id, id),
                             IF rows = {} THEN 404 ELSE 200, rows, {})]
    /\ UNCHANGED <<variant, dbVars>>

\* create: INSERT ... VALUES (this.user.id, ...) RETURNING *
PubCreate(r) ==
    /\ req[r].pc = "idle"
    /\ PubIdSet \ pubIds # {}
    /\ \E u \in users :
         LET id  == CHOOSE i \in PubIdSet \ pubIds : TRUE
             row == PubRow(id, u.id, "nova")
         IN /\ pubs' = pubs \cup {row}
            /\ pubIds' = pubIds \cup {id}
            /\ req' = [req EXCEPT ![r] =
                         PubAnswer(PubCall("create", u.id, id), 201, {row},
                                   Delta(pubs, pubs'))]
    /\ UNCHANGED <<variant, tenants, schemas, created, users, tokens, keys, returned>>
\* updateStatus / assignToUser / delete up to the answer of their getById:
\* a row that is not found throws, and the route answers 400
PubBeginWrite(r) ==
    /\ req[r].pc = "idle"
    /\ \E u \in users, id \in PubIdSet,
          op \in {"updateStatus", "assignToUser", "delete"} :
         LET rows == SelectById(id, u.id) IN
         req' = [req EXCEPT ![r] =
                   IF rows = {}
                   THEN PubAnswer(PubCall(op, u.id, id), 400, {}, {})
                   ELSE [PubCall(op, u.id, id) EXCEPT !.pc = "write"]]
    /\ UNCHANGED <<variant, dbVars>>

\* UPDATE ... SET status = $1 WHERE id = $3 AND user_id = $4 RETURNING *
\* (no row left to update: publication.processo throws, the route answers 400)
PubUpdateStatus(r) ==
    /\ req[r].pc = "write"
    /\ req[r].op = "updateStatus"
    /\ LET rq      == req[r]
           rows    == SelectById(rq.id, rq.user)
           updated == {[p EXCEPT !.status = "pendente"] : p \in rows}
       IN /\ pubs' = (pubs \ rows) \cup updated
          /\ req' = [req EXCEPT ![r] =
                       PubAnswer(rq, IF updated = {} THEN 400 ELSE 200, updated,
                                 Delta(pubs, pubs'))]
    /\ UNCHANGED <<variant, tenants, schemas, created, users, tokens, keys, pubIds, returned>>

\* UPDATE ... SET status = 'atribuida', atribuido_para_id = $2
\*   WHERE id = $4 AND user_id = $5 RETURNING *
PubAssignToUser(r) ==
    /\ req[r].pc = "write"
    /\ req[r].op = "assignToUser"
    /\ LET rq      == req[r]
           rows    == SelectById(rq.id, rq.user)
           updated == {[p EXCEPT !.status = "atribuida"] : p \in rows}
       IN /\ pubs' = (pubs \ rows) \cup updated
          /\ req' = [req EXCEPT ![r] =
                       PubAnswer(rq, IF updated = {} THEN 400 ELSE 200, updated,
                                 Delta(pubs, pubs'))]
    /\ UNCHANGED <<variant, tenants, schemas, created, users, tokens, keys, pubIds, returned>>

\* DELETE FROM publications WHERE id = $1 AND user_id = $2
PubDelete(r) ==
    /\ req[r].pc = "write"
    /\ req[r].op = "delete"
    /\ LET rq   == req[r]
           rows == SelectById(rq.id, rq.user)
       IN /\ pubs' = pubs \ rows
          /\ req' = [req EXCEPT ![r] = PubAnswer(rq, 200, {}, Delta(pubs, pubs'))]
    /\ UNCHANGED <<variant, tenants, schemas, created, users, tokens, keys, pubIds, returned>>

\* the route has answered
PubFinish(r) ==
    /\ req[r].pc = "done"
    /\ req' = [req EXCEPT ![r] = PubIdle]
    /\ UNCHANGED <<variant, dbVars>>

InitPub ==
    /\ variant = "server"
    /\ tenants = {TenantRec(T1, TenantSchemaName(T1))}
    /\ schemas = {TenantSchemaName(T1)}
    /\ created = schemas
    /\ users = {UserRec("u1", T1, "simples"), UserRec("u2", T1, "gerencial")}
    /\ tokens = {}
    /\ keys = {}
    /\ pubs = {}
    /\ pubIds = {}
    /\ returned = {}
    /\ req = [r \in Procs |-> PubIdle]

NextPub ==
    \E r \in Procs :
        \/ PubGetAll(r)
        \/ PubGetStats(r)
        \/ PubGetById(r)
        \/ PubCreate(r)
        \/ PubBeginWrite(r)
        \/ PubUpdateStatus(r)
        \/ PubAssignToUser(r)
        \/ PubDelete(r)
        \/ PubFinish(r)

SpecPub == InitPub /\ [][NextPub]_vars

----------------------------------------------------------------------------
(* Registration keys, registration and tenant creation ("prisma" and       *)
(* "supabase" variants)                                                    *)

KeyIdSet == {"k1"}

Emails == {"e1", "e2"}

NoKey == [id |-> "none"]

\* A registration_keys row.  accounts is not a column: it records the
\* emails of the users created with the key.
KeyRow(id, tenantId, usesAllowed, singleUse) ==
    [id |-> id, tenant_id |-> tenantId, uses_allowed |-> usesAllowed,
     uses_left |-> usesAllowed, single_use |-> singleUse, revoked |-> FALSE,
     accounts |-> {}]

KeyById(id) == CHOOSE k \in keys : k.id = id

\* the keys a register request may carry: a key that was generated, or a
\* string that is no key
PresentedKeys == KeyIdSet \cup {k.id : k \in keys}

\* a users table without the unique index on email
EmailNeverTaken(email) == FALSE

\* users.email is UNIQUE: an insert of an email a row already has fails
EmailTaken(email) == \E u \in users : u.email = email

\* A register or createTenant call in flight.  validKey: the key row as the
\* handler read it; tenantId: the tenant the user is created in.
RegIdle ==
    [pc |-> "idle", op |-> "none", key |-> "none", email |-> "none",
     validKey |-> NoKey, tenantId |-> NoTenant, status |-> 0]

RegAnswer(rq, status) == [rq EXCEPT !.pc = "done", !.status = status, !.validKey = NoKey]

\* crypto.randomUUID() / the id the database gives the row: an id no tenant has
FreshTenantId == CHOOSE id \in TenantIds : ~TenantExists(id)

\* generateKey: usesAllowed || 1, singleUse ?? true
AdminGenerateKey(r) ==
    /\ req[r].pc = "idle"
    /\ \E id \in KeyIdSet, tenantId \in {NoTenant, T1}, usesAllowed \in {0, 1, 2},
          singleUse \in {"unset", "true", "false"} :
         /\ \A k \in keys : k.id # id
         /\ keys' = keys \cup
                {KeyRow(id, tenantId, IF usesAllowed = 0 THEN 1 ELSE usesAllowed,
                        singleUse # "false")}
    /\ UNCHANGED <<variant, tenants, schemas, created, users, tokens, pubs, pubIds, returned, req>>

\* revokeKey
AdminRevokeKey(r) ==
    /\ req[r].pc = "idle"
    /\ \E k \in keys :
         /\ ~k.revoked
         /\ keys' = (keys \ {k}) \cup {[k EXCEPT !.revoked = TRUE]}
    /\ UNCHANGED <<variant, tenants, schemas, created, users, tokens, pubs, pubIds, returned, req>>

\* validateAndUseKey / validateRegistrationKey: the keys that are not
\* revoked and have uses left are read, and the one presented is looked for
RegFindKey(r) ==
    /\ req[r].pc = "idle"
    /\ \E key \in PresentedKeys, email \in Emails :
         LET rq    == [RegIdle EXCEPT !.op = "register", !.key = key, !.email = email]
             found == {k \in keys : k.id = key /\ ~k.revoked /\ k.uses_left > 0}
         IN req' = [req EXCEPT ![r] =
                      IF found = {} THEN RegAnswer(rq, 400)
                      ELSE [rq EXCEPT !.pc = "email",
                                      !.validKey = CHOOSE k \in found : TRUE]]
    /\ UNCHANGED <<variant, dbVars>>

\* "Check if email already exists"; then the tenant is the key's, or a new one
RegCheckEmail(r) ==
    /\ req[r].pc = "email"
    /\ LET rq == req[r] IN
       req' = [req EXCEPT ![r] =
                 IF \E u \in users : u.email = rq.email
                 THEN RegAnswer(rq, 400)
                 ELSE IF rq.validKey.tenant_id = NoTenant
                 THEN [rq EXCEPT !.pc = "tenant"]
                 ELSE [rq EXCEPT !.pc = "user", !.tenantId = rq.validKey.tenant_id]]
    /\ UNCHANGED <<variant, dbVars>>
\* POST /api/admin/tenants: createTenant called by the admin controller
AdminCreateTenant(r) ==
    /\ req[r].pc = "idle"
    /\ TenantIds \ {t.id : t \in tenants} # {}
    /\ req' = [req EXCEPT ![r] = [RegIdle EXCEPT !.op = "createTenant", !.pc = "tenant"]]
    /\ UNCHANGED <<variant, dbVars>>

\* Prisma createTenant: prisma.tenant.create with schemaName ''
PrismaCreateTenantRow(r) ==
    /\ variant = "prisma"
    /\ req[r].pc = "tenant"
    /\ TenantIds \ {t.id : t \in tenants} # {}
    /\ LET id == FreshTenantId IN
         /\ tenants' = tenants \cup {TenantRec(id, NoSchema)}
         /\ req' = [req EXCEPT ![r] = [@ EXCEPT !.pc = "tenantname", !.tenantId = id]]
    /\ UNCHANGED <<variant, schemas, created, users, tokens, keys, pubs, pubIds, returned>>

\* Prisma createTenant: prisma.tenant.update with the schema name
PrismaUpdateSchemaName(r) ==
    /\ req[r].pc = "tenantname"
    /\ LET id == req[r].tenantId IN
         /\ tenants' = (tenants \ {TenantRow(id)})
                          \cup {[TenantRow(id) EXCEPT !.schema_name = TenantSchemaName(id)]}
         /\ req' = [req EXCEPT ![r] = [@ EXCEPT !.pc = "schema"]]
    /\ UNCHANGED <<variant, schemas, created, users, tokens, keys, pubs, pubIds, returned>>

\* createTenant has returned tenantId to its caller
TenantReturned(rq) ==
    IF rq.op = "createTenant" THEN RegAnswer(rq, 201) ELSE [rq EXCEPT !.pc = "user"]

\* Prisma createTenantSchema: CREATE SCHEMA IF NOT EXISTS and the tables; a
\* statement that fails throws, and createTenant returns nothing
PrismaCreateTenantSchema(r) ==
    /\ req[r].pc = "schema"
    /\ LET rq == req[r] IN
       \E ok \in BOOLEAN :
         IF ok
         THEN /\ schemas' = schemas \cup {TenantSchemaName(rq.tenantId)}
              /\ created' = created \cup {TenantSchemaName(rq.tenantId)}
              /\ returned' = returned \cup {rq.tenantId}
              /\ req' = [req EXCEPT ![r] = TenantReturned(rq)]
         ELSE /\ req' = [req EXCEPT ![r] = RegAnswer(rq, 400)]
              /\ UNCHANGED <<schemas, created, returned>>
    /\ UNCHANGED <<variant, tenants, users, tokens, keys, pubs, pubIds>>

\* Supabase createTenant: the tenants row is inserted with its schema_name
SupabaseInsertTenant(r) ==
    /\ variant = "supabase"
    /\ req[r].pc = "tenant"
    /\ TenantIds \ {t.id : t \in tenants} # {}
    /\ LET id == FreshTenantId IN
         /\ tenants' = tenants \cup {TenantRec(id, TenantSchemaName(id))}
         /\ req' = [req EXCEPT ![r] = [@ EXCEPT !.pc = "rpc", !.tenantId = id]]
    /\ UNCHANGED <<variant, schemas, created, users, tokens, keys, pubs, pubIds, returned>>

\* Supabase createTenant: await supabase.rpc('create_tenant_schema', ...)
\* resolves to { data, error }; the code reads neither and returns tenantId
SupabaseRpcCreateSchema(r) ==
    /\ req[r].pc = "rpc"
    /\ LET rq == req[r] IN
       \E error \in BOOLEAN :
         /\ schemas' = IF error THEN schemas
                       ELSE schemas \cup {TenantSchemaName(rq.tenantId)}
         /\ created' = IF error THEN created
                       ELSE created \cup {TenantSchemaName(rq.tenantId)}
         /\ returned' = returned \cup {rq.tenantId}
         /\ req' = [req EXCEPT ![r] = TenantReturned(rq)]
    /\ UNCHANGED <<variant, tenants, users, tokens, keys, pubs, pubIds>>
\* prisma.user.create / insert into users: the email is unique, so an insert
\* of an email that is there fails and the registration throws
RegCreateUser(r) ==
    /\ req[r].pc = "user"
    /\ LET rq == req[r] IN
       IF EmailTaken(rq.email)
       THEN /\ req' = [req EXCEPT ![r] = RegAnswer(rq, 400)]
            /\ UNCHANGED <<users, keys>>
       ELSE /\ users' = users \cup {UserRec(rq.email, rq.tenantId, "SIMPLES")}
            /\ keys' = {IF k.id = rq.key
                        THEN [k EXCEPT !.accounts = @ \cup {rq.email}] ELSE k : k \in keys}
            /\ req' = [req EXCEPT ![r] =
                         [rq EXCEPT !.pc = IF variant = "prisma" THEN "keyupdate"
                                           ELSE "keyread"]]
    /\ UNCHANGED <<variant, tenants, schemas, created, tokens, pubs, pubIds, returned>>

\* Supabase useRegistrationKey: the key row is read again
SupabaseReadKey(r) ==
    /\ req[r].pc = "keyread"
    /\ req' = [req EXCEPT ![r] = [@ EXCEPT !.pc = "keyupdate",
                                           !.validKey = KeyById(req[r].key)]]
    /\ UNCHANGED <<variant, dbVars>>

\* the key's update: usesLeft: validKey.usesLeft - 1, and revoked: true for
\* a single-use key, with validKey the row as it was read
RegUpdateKey(r) ==
    /\ req[r].pc = "keyupdate"
    /\ LET rq == req[r] IN
         /\ keys' = {IF k.id = rq.key
                     THEN [k EXCEPT !.uses_left = rq.validKey.uses_left - 1,
                                    !.revoked = IF rq.validKey.single_use THEN TRUE ELSE @]
                     ELSE k : k \in keys}
         /\ req' = [req EXCEPT ![r] = RegAnswer(rq, 201)]
    /\ UNCHANGED <<variant, tenants, schemas, created, users, tokens, pubs, pubIds, returned>>

\* the handler has answered
RegFinish(r) ==
    /\ req[r].pc = "done"
    /\ req' = [req EXCEPT ![r] = RegIdle]
    /\ UNCHANGED <<variant, dbVars>>

InitReg ==
    /\ variant \in {"prisma", "supabase"}
    /\ tenants = {TenantRec(T1, TenantSchemaName(T1))}
    /\ schemas = {TenantSchemaName(T1)}
    /\ created = schemas
    /\ users = {}
    /\ tokens = {}
    /\ keys = {}
    /\ pubs = {}
    /\ pubIds = {}
    /\ returned = {}
    /\ req = [r \in Procs |-> RegIdle]

NextReg ==
    \E r \in Procs :
        \/ AdminGenerateKey(r)
        \/ AdminRevokeKey(r)
        \/ AdminCreateTenant(r)
        \/ RegFindKey(r)
        \/ RegCheckEmail(r)
        \/ PrismaCreateTenantRow(r)
        \/ PrismaUpdateSchemaName(r)
        \/ PrismaCreateTenantSchema(r)
        \/ SupabaseInsertTenant(r)
        \/ SupabaseRpcCreateSchema(r)
        \/ RegCreateUser(r)
        \/ SupabaseReadKey(r)
        \/ RegUpdateKey(r)
        \/ RegFinish(r)

SpecReg == InitReg /\ [][NextReg]_vars

\* C3: for every tenant id createTenant has returned, the schema named
\* 'tenant_' followed by the id without its hyphens has been created.
C3_ReturnedTenantHasSchema ==
    \A id \in returned : TenantSchemaName(id) \in created

\* C7: the users created with a registration key are never more than its
\* usesAllowed, and its usesLeft is never below 0.
C7_KeyUsesBounded ==
    \A k \in keys :
        /\ Cardinality(k.accounts) <= k.uses_allowed
        /\ k.uses_left >= 0

\* C12: the users created with a single-use registration key are never more
\* than one, whatever its usesAllowed.
C12_SingleUseKeyUsedOnce ==
    \A k \in keys : k.single_use => Cardinality(k.accounts) <= 1

\* C13: once a key is revoked, no user is created with it.  A key that is not
\* single-use is revoked by revokeKey alone, so for such a key: no step from a
\* state where it is revoked adds to the users created with it.
C13_NoUseAfterRevocation ==
    [][\A k \in keys :
          ~k.single_use /\ k.revoked =>
              \A kk \in keys' : kk.id = k.id => kk.accounts \subseteq k.accounts]_vars

\* Registrations with two keys, each of a tenant of its own, that the
\* administrator has generated
InitEmail ==
    /\ variant \in {"prisma", "supabase"}
    /\ tenants = {TenantRec(T1, TenantSchemaName(T1)), TenantRec(T2, TenantSchemaName(T2))}
    /\ schemas = {TenantSchemaName(T1), TenantSchemaName(T2)}
    /\ created = schemas
    /\ users = {}
    /\ tokens = {}
    /\ \E usesAllowed \in {1, 2}, singleUse \in BOOLEAN :
         keys = {KeyRow("k1", T1, usesAllowed, singleUse),
                 KeyRow("k2", T2, usesAllowed, singleUse)}
    /\ pubs = {}
    /\ pubIds = {}
    /\ returned = {}
    /\ req = [r \in Procs |-> RegIdle]

NextEmail ==
    \E r \in Procs :
        \/ AdminRevokeKey(r)
        \/ RegFindKey(r)
        \/ RegCheckEmail(r)
        \/ RegCreateUser(r)
        \/ SupabaseReadKey(r)
        \/ RegUpdateKey(r)
        \/ RegFinish(r)

SpecEmail == InitEmail /\ [][NextEmail]_vars

----------------------------------------------------------------------------
(* Login, token refresh, logout and a protected request of one user, with  *)
(* the user or the tenant being deactivated meanwhile                      *)

\* A refresh_tokens row; the token the client holds is named by the row's
\* id.  exchanges and loggedOut are not columns: the new pairs issued for
\* the token, and whether its user has logged out since it was issued.
TokenRow(id, userId) ==
    [id |-> id, user_id |-> userId, is_active |-> TRUE,
     exchanges |-> 0, loggedOut |-> FALSE]

\* A handler of the auth router or a protected route in flight.
\* afterUserOff / afterTenantOff: the user / the tenant was deactivated
\* when the request came; afterLogout: the refresh token presented was issued
\* before a logout of its user that has completed; issued: the answer
\* carries a new token pair; data: the answer carries tenant data.
AuthIdle ==
    [pc |-> "idle", op |-> "none", user |-> "none", token |-> NoToken,
     afterUserOff |-> FALSE, afterTenantOff |-> FALSE, afterLogout |-> FALSE,
     issued |-> FALSE, data |-> FALSE, status |-> 0]

AuthCall(op, u) ==
    [AuthIdle EXCEPT !.op = op, !.user = u.id,
                     !.afterUserOff = ~u.is_active,
                     !.afterTenantOff = ~TenantRow(u.tenant_id).is_active]

AuthAnswer(rq, status) == [rq EXCEPT !.pc = "done", !.status = status, !.token = NoToken]

\* the handlers in flight that will insert a refresh token
Issuing == {p \in Procs : req[p].op \in {"login", "refresh"} /\ req[p].pc # "done"}

\* the user's row passes the handler's test (the server tests the user, the
\* controllers the user and the tenant)
AccountPasses(userId) ==
    IF variant = "server" THEN ServerAuthPasses(userId)
    ELSE ControllerAuthPasses(userId)

\* users.is_active is set to false (no handler does it: an operator does)
DeactivateUser ==
    /\ \E u \in users :
         /\ u.is_active
         /\ users' = (users \ {u}) \cup {[u EXCEPT !.is_active = FALSE]}
    /\ UNCHANGED <<variant, tenants, schemas, created, tokens, keys, pubs, pubIds, returned, req>>

\* updateTenantSettings(tenantId, { is_active: false })
DeactivateTenant ==
    /\ \E t \in tenants :
         /\ t.is_active
         /\ tenants' = (tenants \ {t}) \cup {[t EXCEPT !.is_active = FALSE]}
    /\ UNCHANGED <<variant, schemas, created, users, tokens, keys, pubs, pubIds, returned, req>>

\* login: the user is read by email and tested
LoginReadUser(r) ==
    /\ req[r].pc = "idle"
    /\ Cardinality(tokens) + Cardinality(Issuing) < Cardinality(TokenIdSet)
    /\ \E u \in users :
         LET rq == AuthCall("login", u) IN
         req' = [req EXCEPT ![r] =
                   IF AccountPasses(u.id) THEN [rq EXCEPT !.pc = "tokens"]
                   ELSE AuthAnswer(rq, 401)]
    /\ UNCHANGED <<variant, dbVars>>

\* generateTokens: a new refresh_tokens row; the handler answers the pair
GenerateTokens(r) ==
    /\ req[r].pc = "tokens"
    /\ LET rq == req[r]
           id == CHOOSE i \in TokenIdSet : \A t \in tokens : t.id # i
       IN /\ tokens' = {IF rq.op = "refresh" /\ t.id = rq.token
                         THEN [t EXCEPT !.exchanges = @ + 1] ELSE t : t \in tokens}
                        \cup {TokenRow(id, rq.user)}
          /\ req' = [req EXCEPT ![r] = [AuthAnswer(rq, 200) EXCEPT !.issued = TRUE]]
    /\ UNCHANGED <<variant, tenants, schemas, created, users, keys, pubs, pubIds, returned>>
\* refreshAccessToken / verifyRefreshToken: the user's active tokens are
\* read and the one presented is looked for among them
RefreshReadTokens(r) ==
    /\ req[r].pc = "idle"
    /\ Cardinality(tokens) + Cardinality(Issuing) < Cardinality(TokenIdSet)
    /\ \E t \in tokens :
         LET rq == [AuthCall("refresh", UserRow(t.user_id))
                      EXCEPT !.token = t.id, !.afterLogout = t.loggedOut]
         IN req' = [req EXCEPT ![r] =
                      IF t.is_active THEN [rq EXCEPT !.pc = "invalidate"]
                      ELSE AuthAnswer(rq, 401)]
    /\ UNCHANGED <<variant, dbVars>>

\* "Invalidate used refresh token (rotation)": is_active false by id
RefreshInvalidate(r) ==
    /\ req[r].pc = "invalidate"
    /\ tokens' = {IF t.id = req[r].token THEN [t EXCEPT !.is_active = FALSE] ELSE t :
                     t \in tokens}
    /\ req' = [req EXCEPT ![r] = [@ EXCEPT !.pc = "refreshuser"]]
    /\ UNCHANGED <<variant, tenants, schemas, created, users, keys, pubs, pubIds, returned>>

\* the user is read again and tested before the new pair is generated
RefreshReadUser(r) ==
    /\ req[r].pc = "refreshuser"
    /\ req' = [req EXCEPT ![r] =
                 IF AccountPasses(req[r].user) THEN [@ EXCEPT !.pc = "tokens"]
                 ELSE AuthAnswer(@, 401)]
    /\ UNCHANGED <<variant, dbVars>>

\* revokeAllTokens(userId)
RevokeAllTokens(userId) ==
    {IF t.user_id = userId THEN [t EXCEPT !.is_active = FALSE] ELSE t : t \in tokens}

\* POST /logout.  The server's handler only answers.  AuthController.logout
\* revokes the user's tokens when the access token verifies, and answers
\* success when it does not (expired).
Logout(r) ==
    /\ req[r].pc = "idle"
    /\ \E u \in users, expired \in BOOLEAN :
         /\ tokens' = {[t EXCEPT !.loggedOut = @ \/ t.user_id = u.id] :
                         t \in IF variant = "server" \/ expired THEN tokens
                               ELSE RevokeAllTokens(u.id)}
         /\ req' = [req EXCEPT ![r] = AuthAnswer(AuthCall("logout", u), 200)]
    /\ UNCHANGED <<variant, tenants, schemas, created, users, keys, pubs, pubIds, returned>>

\* a protected route: authenticateToken
ProtectedAuthenticate(r) ==
    /\ req[r].pc = "idle"
    /\ \E u \in users :
         LET rq == AuthCall("request", u) IN
         req' = [req EXCEPT ![r] =
                   IF ~AccountPasses(u.id) THEN AuthAnswer(rq, 401)
                   ELSE [rq EXCEPT !.pc = IF variant = "server" THEN "query"
                                          ELSE "tenantdb"]]
    /\ UNCHANGED <<variant, dbVars>>

\* a protected route of the controllers: getTenantDatabase(req.tenantId)
ProtectedTenantDatabase(r) ==
    /\ req[r].pc = "tenantdb"
    /\ req' = [req EXCEPT ![r] =
                 IF TenantDbAvailable(UserRow(req[r].user).tenant_id)
                 THEN [@ EXCEPT !.pc = "query"]
                 ELSE AuthAnswer(@, 500)]
    /\ UNCHANGED <<variant, dbVars>>

\* a protected route: the tenant query, answered with rows
ProtectedQuery(r) ==
    /\ req[r].pc = "query"
    /\ req' = [req EXCEPT ![r] = [AuthAnswer(@, 200) EXCEPT !.data = TRUE]]
    /\ UNCHANGED <<variant, dbVars>>

\* the handler has answered
AuthFinish(r) ==
    /\ req[r].pc = "done"
    /\ req' = [req EXCEPT ![r] = AuthIdle]
    /\ UNCHANGED <<variant, dbVars>>

InitAuth ==
    /\ variant \in {"server", "prisma"}
    /\ tenants = {TenantRec(T1, TenantSchemaName(T1))}
    /\ schemas = {TenantSchemaName(T1)}
    /\ created = schemas
    /\ users = {UserRec("u1", T1, AccountTypeName(variant, "gerencial"))}
    /\ tokens = {}
    /\ keys = {}
    /\ pubs = {}
    /\ pubIds = {}
    /\ returned = {}
    /\ req = [r \in Procs |-> AuthIdle]

NextAuth ==
    \/ DeactivateUser
    \/ DeactivateTenant
    \/ \E r \in Procs :
        \/ LoginReadUser(r)
        \/ GenerateTokens(r)
        \/ RefreshReadTokens(r)
        \/ RefreshInvalidate(r)
        \/ RefreshReadUser(r)
        \/ Logout(r)
        \/ ProtectedAuthenticate(r)
        \/ ProtectedTenantDatabase(r)
        \/ ProtectedQuery(r)
        \/ AuthFinish(r)

SpecAuth == InitAuth /\ [][NextAuth]_vars

\* C6: a refresh token is exchanged for a new token pair at most once.
C6_ExchangedAtMostOnce ==
    \A t \in tokens : t.exchanges <= 1

\* C8: a protected request or a token refresh that comes after its user was
\* deactivated gets no tenant data and no new tokens, and is answered 401.
C8_DeactivatedUserRejected ==
    \A r \in Procs :
        (req[r].op \in {"request", "refresh"} /\ req[r].afterUserOff) =>
            /\ ~req[r].data /\ ~req[r].issued
            /\ req[r].pc \notin {"tokens", "query", "tenantdb"}
            /\ req[r].pc = "done" => req[r].status = 401

\* a refresh with a token issued before the deactivation and a protected
\* request, both come after the deactivation, have been answered
C8_Witness ==
    \E r1, r2 \in Procs :
        /\ req[r1].pc = "done" /\ req[r1].op = "refresh" /\ req[r1].afterUserOff
        /\ \E t \in tokens : t.user_id = req[r1].user /\ ~t.is_active /\ t.exchanges = 0
        /\ req[r2].pc = "done" /\ req[r2].op = "request" /\ req[r2].afterUserOff

\* C9: a login, a token refresh or a protected request that comes after the
\* user's tenant was deactivated gets no new tokens and no tenant data.
C9_DeactivatedTenantRejected ==
    \A r \in Procs :
        req[r].afterTenantOff => (~req[r].data /\ ~req[r].issued)

\* C10: a refresh that presents a token issued before a completed logout of
\* its user gets no new tokens.
C10_NoExchangeAfterLogout ==
    \A r \in Procs :
        (req[r].op = "refresh" /\ req[r].afterLogout) => ~req[r].issued
=============================================================================
